---- MODULE Spec2Model ----
(***************************************************************************)
(* Model of the DataDash lowerthird microservice:                          *)
(*   src/lowerthird_service.py  DataDashRenderer, generate_lowerthird      *)
(*   src/main.py                the /create-lowerthird endpoint            *)
(*                                                                         *)
(* Numbers.  A duration is held as an integer number of 1/DurDen seconds   *)
(* (64ths of a second), so that duration * fps is a binary fraction and    *)
(* the float product of the code is exact.  The animation time             *)
(* t = frame_num / total_frames and everything derived from it is kept as  *)
(* an exact fraction; products that do not fit a machine integer are       *)
(* computed on little-endian digit sequences (base Base).  The code        *)
(* computes the same quantities in IEEE doubles; the two differ only where *)
(* a double rounds across an integer or a window threshold.                *)
(*                                                                         *)
(* A frame is modelled by what create_frame decides to paint (which        *)
(* elements, at what width, which characters and words), not by pixels.    *)
(***************************************************************************)
EXTENDS Integers, Sequences, FiniteSets, TLC

\* ------------------------------------------------------------------ bounds
\* longest "small" duration drawn for a direct call, in 1/DurDen seconds
MaxDuration == 6
\* longest duration drawn for a concurrent HTTP request, in 1/DurDen seconds
MaxConcDuration == 2
\* longest duration drawn for create_frame called out of order
MaxFrameDuration == 2
\* longest duration drawn for the renders of each style, in 1/8 seconds
MaxStyleDuration == 2

\* ------------------------------------------------------- program constants
DurDen == 64
Base == 10000

\* ----------------------------------------------------------------- strings
\* Python strings are sequences of one-character strings.
S_DataDash == <<"D", "a", "t", "a", "D", "a", "s", "h">>
S_Fortinet == <<"F", "o", "r", "t", "i", "n", "e", "t", " ",
                "C", "o", "m", "m", "u", "n", "i", "t", "y", " ",
                "I", "n", "s", "i", "g", "h", "t", "s">>
S_Hi == <<"H", "i">>
S_TwoWords == <<" ", "a", " ", " ", "b">>

RECURSIVE SkipSpaces(_)
\* str.split(): leading whitespace is dropped before each word
SkipSpaces(s) ==
    IF s = <<>> THEN <<>>
    ELSE IF Head(s) = " " THEN SkipSpaces(Tail(s)) ELSE s

RECURSIVE TakeWord(_)
TakeWord(s) ==
    IF s = <<>> \/ Head(s) = " " THEN <<>>
    ELSE <<Head(s)>> \o TakeWord(Tail(s))

RECURSIVE split(_)
\* subtitle.split(): the maximal runs of non-whitespace characters, in order
split(s) ==
    LET r == SkipSpaces(s) IN
    IF r = <<>> THEN <<>>
    ELSE LET w == TakeWord(r) IN
         <<w>> \o split(SubSeq(r, Len(w) + 1, Len(r)))

RECURSIVE join(_)
\* " ".join(words)
join(ws) ==
    IF ws = <<>> THEN <<>>
    ELSE IF Len(ws) = 1 THEN ws[1]
    ELSE ws[1] \o <<" ">> \o join(Tail(ws))

\* the slice s[:k]; a negative k counts from the end
Prefix(s, k) ==
    IF k >= 0 THEN SubSeq(s, 1, IF k < Len(s) THEN k ELSE Len(s))
    ELSE SubSeq(s, 1, Len(s) + k)

\* ------------------------------------------------------ exact big numbers
\* A natural number as its digits in base Base, least significant first,
\* without leading zeros (0 is the empty sequence).
RECURSIVE BigOf(_)
BigOf(n) == IF n = 0 THEN <<>> ELSE <<n % Base>> \o BigOf(n \div Base)

RECURSIVE BigMulCarry(_, _, _)
BigMulCarry(x, k, carry) ==
    IF x = <<>> THEN BigOf(carry)
    ELSE LET v == Head(x) * k + carry IN
         <<v % Base>> \o BigMulCarry(Tail(x), k, v \div Base)

\* x * k for 0 <= k < 200000
BigMul(x, k) == IF k = 0 THEN <<>> ELSE BigMulCarry(x, k, 0)

RECURSIVE BigDivRem(_, _)
\* <<quotient digits (may carry leading zeros), remainder>> of x / d
BigDivRem(x, d) ==
    IF x = <<>> THEN <<(<<>>), 0>>
    ELSE LET hi == BigDivRem(Tail(x), d)
             v == hi[2] * Base + Head(x)
         IN <<(<<v \div d>>) \o hi[1], v % d>>

RECURSIVE BigTrim(_)
BigTrim(x) ==
    IF x = <<>> THEN <<>>
    ELSE IF x[Len(x)] = 0 THEN BigTrim(SubSeq(x, 1, Len(x) - 1)) ELSE x

RECURSIVE BigToInt(_)
BigToInt(x) == IF x = <<>> THEN 0 ELSE Head(x) + Base * BigToInt(Tail(x))

\* <<floor(L * a^4 / d^4), whether the division was exact>>, 0 <= a, 0 < d
ScaledPow4(L, a, d) ==
    LET n4 == BigMul(BigMul(BigMul(BigMul(BigOf(L), a), a), a), a)
        q1 == BigDivRem(n4, d)
        q2 == BigDivRem(BigTrim(q1[1]), d)
        q3 == BigDivRem(BigTrim(q2[1]), d)
        q4 == BigDivRem(BigTrim(q3[1]), d)
    IN <<BigToInt(BigTrim(q4[1])),
         q1[2] = 0 /\ q2[2] = 0 /\ q3[2] = 0 /\ q4[2] = 0>>

\* ----------------------------------------------------------------- easing
\* int(L * (1 - (1 - x)^4)) for x = num/den, den > 0: Python's int()
\* truncates toward zero.  With a = den - num the value is
\* L - L*a^4/den^4; for x <= 1 it is >= 0 and int() is floor, for x < 0
\* (a > den) it is negative and int() is the negated floor of the negation.
int_ease_out_quart_bad(L, num, den) ==
    LET a == den - num
        p == ScaledPow4(L, IF a >= 0 THEN a ELSE -a, den)
    IN p[1]

int_ease_out_quart(L, num, den) ==
    LET a == den - num
        p == ScaledPow4(L, IF a >= 0 THEN a ELSE -a, den)
    IN IF p[1] < L \/ (p[1] = L /\ p[2])
       THEN L - p[1] - (IF p[2] THEN 0 ELSE 1)
       ELSE -(p[1] - L)

\* --------------------------------------------------------------- renderer
\* self.colors
colors ==
    [cloud_blue |->
        [primary |-> <<48, 127, 226>>, secondary |-> <<30, 90, 180>>,
         accent |-> <<200, 220, 255>>, white |-> <<255, 255, 255>>,
         dark |-> <<20, 40, 80>>, background |-> <<0, 0, 0>>],
     secure_red |->
        [primary |-> <<218, 41, 28>>, secondary |-> <<160, 30, 20>>,
         accent |-> <<255, 180, 170>>, white |-> <<255, 255, 255>>,
         dark |-> <<80, 15, 10>>, background |-> <<0, 0, 0>>],
     sase_purple |->
        [primary |-> <<144, 99, 205>>, secondary |-> <<100, 70, 150>>,
         accent |-> <<200, 180, 230>>, white |-> <<255, 255, 255>>,
         dark |-> <<40, 30, 80>>, background |-> <<0, 0, 0>>],
     connectivity_yellow |->
        [primary |-> <<255, 185, 0>>, secondary |-> <<200, 145, 0>>,
         accent |-> <<255, 230, 150>>, white |-> <<255, 255, 255>>,
         dark |-> <<80, 60, 0>>, background |-> <<0, 0, 0>>]]

\* a lookup that falls back to another entry of the table
colors_get_other_default(style) ==
    IF style \in DOMAIN colors THEN colors[style] ELSE colors["secure_red"]

\* self.colors.get(style, self.colors["cloud_blue"])
colors_get(style) ==
    IF style \in DOMAIN colors THEN colors[style] ELSE colors["cloud_blue"]

\* DataDashRenderer.__init__
DataDashRenderer(style) ==
    [width |-> 1920, height |-> 1080, fps |-> 30, style |-> style,
     colors |-> colors, current_colors |-> colors_get(style)]

\* int(x) for the fraction x = num/den, den > 0: truncation toward zero
int_frac(num, den) ==
    IF num >= 0 THEN num \div den ELSE -((-num) \div den)

\* a nearby frame count: duration * fps rounded to the nearest integer
rounded_frames(duration, fps) ==
    int_frac(2 * duration * fps + DurDen, 2 * DurDen)

\* int(duration * self.fps), duration in 1/DurDen seconds
int_frames(duration, fps) == int_frac(duration * fps, DurDen)

\* ----------------------------------------------------------- the timeline
\* t > p/q  and  t <= p/q  for t = n/N (N # 0), p/q a positive fraction
t_gt(n, N, p, q) == IF N > 0 THEN n * q > p * N ELSE n * q < p * N
t_le(n, N, p, q) == ~t_gt(n, N, p, q)
t_lt(n, N, p, q) == IF N > 0 THEN n * q < p * N ELSE n * q > p * N

\* window starts and lengths, as fractions of the render, in tenths
bar_start == 2
bar_duration == 5
logo_start == 4
logo_duration == 4
title_start == 6
title_duration == 5
subtitle_start == 8
subtitle_duration == 4

\* min((t - start/10) / (dur/10), 1.0) as <<num, den>>, for t = n/N > start/10
window_t(n, N, start, dur) ==
    LET num == 10 * n - start * N
        den == dur * N
    IN IF num >= den THEN <<1, 1>> ELSE <<num, den>>

\* "if t > bar_start and t <= (bar_start + bar_duration)"
bar_window(n, N) ==
    t_gt(n, N, bar_start, 10) /\ t_le(n, N, bar_start + bar_duration, 10)

\* bar_width = int(650 * ease_out_quart(bar_t)); painted only "if bar_width > 0"
bar_width(n, N) ==
    IF bar_window(n, N)
    THEN LET w == int_ease_out_quart(650, 10 * n - bar_start * N, bar_duration * N)
         IN IF w > 0 THEN w ELSE 0
    ELSE 0

\* the phases with the two tests of the if/elif chain in the other order
logo_phase_swapped(n, N) ==
    IF ~t_gt(n, N, logo_start, 10) THEN "none"
    ELSE LET lt == window_t(n, N, logo_start, logo_duration) IN
         IF 10 * lt[1] < 7 * lt[2] THEN "glow"
         ELSE IF 10 * lt[1] < 3 * lt[2] THEN "materialize"
         ELSE "settle"

\* "if t > logo_start": the phase painted; logo_t = min((t - 0.4) / 0.4, 1.0)
logo_phase(n, N) ==
    IF ~t_gt(n, N, logo_start, 10) THEN "none"
    ELSE LET lt == window_t(n, N, logo_start, logo_duration) IN
         IF 10 * lt[1] < 3 * lt[2] THEN "glow"
         ELSE IF 10 * lt[1] < 7 * lt[2] THEN "materialize"
         ELSE "settle"

\* int(255 * alpha) of the logo mark handed to create_professional_logo:
\* logo_alpha = ease_out_quart((logo_t - 0.3) / 0.4) while materializing,
\* final_alpha = 0.8 + 0.2 * ease_out_quart((logo_t - 0.7) / 0.3) once settled
logo_alpha255(n, N) ==
    LET lt == window_t(n, N, logo_start, logo_duration)
        ph == logo_phase(n, N)
    IN IF ph = "materialize"
       THEN int_ease_out_quart(255, 10 * lt[1] - 3 * lt[2], 4 * lt[2])
       ELSE IF ph = "settle"
       THEN 204 + int_ease_out_quart(51, 10 * lt[1] - 7 * lt[2], 3 * lt[2])
       ELSE 0

\* the title's window opened with the bar's start
title_window_bar_start(n, N) == t_gt(n, N, bar_start, 10)

\* "if t > title_start"
title_window(n, N) == t_gt(n, N, title_start, 10)

\* chars_to_show = int(title_length * ease_out_quart(title_t))
chars_to_show(n, N, main_title) ==
    IF title_window(n, N)
    THEN LET tt == window_t(n, N, title_start, title_duration)
         IN int_ease_out_quart(Len(main_title), tt[1], tt[2])
    ELSE 0

\* "if t > subtitle_start"
subtitle_window(n, N) == t_gt(n, N, subtitle_start, 10)

\* words_to_show = int(len(words) * ease_out_quart(subtitle_t))
words_to_show(n, N, subtitle) ==
    IF subtitle_window(n, N)
    THEN LET st == window_t(n, N, subtitle_start, subtitle_duration)
         IN int_ease_out_quart(Len(split(subtitle)), st[1], st[2])
    ELSE 0

\* create_premium_background: "if t < 0.8", glow_alpha = int(20 * (t / 0.8))
edge_glow_alpha(n, N) ==
    IF t_lt(n, N, 8, 10)
    THEN (IF N > 0 THEN int_frac(25 * n, N) ELSE int_frac(-25 * n, -N))
    ELSE 0

\* what create_frame paints for frame n of N, N # 0, with the renderer self
paint(self, n, N, main_title, subtitle) ==
    LET bw == bar_width(n, N)
        vt == Prefix(main_title, chars_to_show(n, N, main_title))
        vs == join(Prefix(split(subtitle), words_to_show(n, N, subtitle)))
    IN [frame_num |-> n,
        total_frames |-> N,
        size |-> <<self.width, self.height>>,
        colors |-> self.current_colors,
        ambient_bg |-> t_gt(n, N, 1, 10),
        edge_glow |-> edge_glow_alpha(n, N),
        bar |-> bw > 0,
        bar_width |-> bw,
        logo |-> logo_phase(n, N),
        logo_alpha |-> logo_alpha255(n, N),
        title |-> vt # <<>>,
        visible_title |-> vt,
        subtitle |-> vs # <<>>,
        visible_subtitle |-> vs,
        chars_shown |-> chars_to_show(n, N, main_title),
        words_shown |-> words_to_show(n, N, subtitle),
        ambient_glow |-> t_gt(n, N, 5, 10)]

\* a create_frame that caches the fallback palette on the renderer
create_frame_stateful(self, frame_num, duration, main_title, subtitle) ==
    LET N == int_frames(duration, self.fps) IN
    IF N = 0 THEN [raised |-> TRUE, self |-> self]
    ELSE [raised |-> FALSE,
          self |-> [self EXCEPT !.current_colors = self.colors["cloud_blue"]],
          frame |-> paint(self, frame_num, N, main_title, subtitle)]

\* DataDashRenderer.create_frame: the frame, the renderer as the call leaves
\* it, and whether it raised (ZeroDivisionError in t = frame_num / total_frames)
create_frame(self, frame_num, duration, main_title, subtitle) ==
    LET N == int_frames(duration, self.fps) IN
    IF N = 0 THEN [raised |-> TRUE, self |-> self]
    ELSE [raised |-> FALSE,
          self |-> self,
          frame |-> paint(self, frame_num, N, main_title, subtitle)]

\* ------------------------------------------------------------------ state
Reqs == {1, 2}

OUTPUT_DIR == "/app/outputs"
\* os.path.join(output_dir, f"{output_name}.mp4")
output_path(output_name) == <<OUTPUT_DIR, output_name, ".mp4">>

OutputNames == {"lowerthird", "demo"}
Paths == {output_path(nm) : nm \in OutputNames}

Titles == {<<>>, S_Hi, S_DataDash}
Subtitles == {<<>>, S_TwoWords, S_Fortinet}
Styles == {"secure_red", "not_a_style"}
\* durations of a direct call, in 1/DurDen seconds: -1.0, 0, the small ones
\* (multiples of 1/8 s), 3.0 and 4.0
Durations == {-64, 0} \cup {8 * k : k \in 1..MaxDuration} \cup {192, 256}

VARIABLES
    pc,            \* where each call stands
    args,          \* main_title, subtitle, output_name, duration, style
    renderer,      \* the DataDashRenderer of the call
    total_frames,  \* generate_lowerthird's local
    frame_num,     \* loop variable: the next index of range(total_frames)
    frame,         \* the frame create_frame returned last
    writer,        \* the cv2.VideoWriter of the call
    written,       \* the frames handed to writer.write, in order
    calls,         \* the frame indices create_frame was invoked with
    failed_at,     \* the frame index at which create_frame raised, or -1
    outcome,       \* how generate_lowerthird left: returned path or raised
    response,      \* the HTTP response of the endpoint
    fs,            \* the files under OUTPUT_DIR
    seen           \* what create_frame returned, by frame index

vars == <<pc, args, renderer, total_frames, frame_num, frame, writer, written,
          calls, failed_at, outcome, response, fs, seen>>

NoArgs == [main_title |-> <<>>, subtitle |-> <<>>, output_name |-> "lowerthird",
           duration |-> [number |-> FALSE, val |-> 0], style |-> "cloud_blue"]
NoRenderer == [width |-> 0, height |-> 0, fps |-> 0, style |-> "",
               colors |-> colors, current_colors |-> colors["cloud_blue"]]
NoFrame == [frame_num |-> -1]
NoWriter == [state |-> "none", path |-> <<>>, pos |-> 0]
NoOutcome == [kind |-> "none", path |-> <<>>, msg |-> ""]
NoResponse == [code |-> 0, status |-> "", video |-> <<>>]
NoFile == [exists |-> FALSE, old |-> FALSE, data |-> <<>>]
OldFile == [exists |-> TRUE, old |-> TRUE, data |-> <<>>]
Hole == [frame_num |-> -2]

\* everything but pc, args and fs, as it is before any call
Blank ==
    /\ renderer = [r \in Reqs |-> NoRenderer]
    /\ total_frames = [r \in Reqs |-> 0]
    /\ frame_num = [r \in Reqs |-> 0]
    /\ frame = [r \in Reqs |-> NoFrame]
    /\ writer = [r \in Reqs |-> NoWriter]
    /\ written = [r \in Reqs |-> <<>>]
    /\ calls = [r \in Reqs |-> <<>>]
    /\ failed_at = [r \in Reqs |-> -1]
    /\ outcome = [r \in Reqs |-> NoOutcome]
    /\ response = [r \in Reqs |-> NoResponse]
    /\ seen = {}

Num(v) == [number |-> TRUE, val |-> v]

\* a direct call generate_lowerthird(main_title, subtitle, output_name,
\* duration, style) by request 1; request 2 never starts
Init ==
    /\ pc = [r \in Reqs |-> IF r = 1 THEN "call" ELSE "off"]
    /\ \E ti \in Titles, su \in Subtitles, d \in Durations, st \in Styles :
         args = [r \in Reqs |->
                   IF r = 1
                   THEN [main_title |-> ti, subtitle |-> su,
                         output_name |-> "demo", duration |-> Num(d),
                         style |-> st]
                   ELSE NoArgs]
    /\ \E f \in {NoFile, OldFile} : fs = [p \in Paths |-> f]
    /\ Blank

\* --------------------------------------------------- generate_lowerthird
\* os.makedirs; output_path; DataDashRenderer(style); total_frames
Setup(r) ==
    /\ pc[r] = "call"
    /\ LET rn == DataDashRenderer(args[r].style) IN
       /\ renderer' = [renderer EXCEPT ![r] = rn]
       /\ total_frames' = [total_frames EXCEPT ![r] =
                             int_frames(args[r].duration.val, rn.fps)]
    /\ pc' = [pc EXCEPT ![r] = "open"]
    /\ UNCHANGED <<failed_at, args, frame_num, frame, writer, written, calls, outcome,
                   response, fs, seen>>

\* os.makedirs(output_dir, exist_ok=True) raises (OSError)
SetupFails(r) ==
    /\ pc[r] = "call"
    /\ outcome' = [outcome EXCEPT ![r] =
                     [kind |-> "raise", path |-> <<>>, msg |-> "makedirs"]]
    /\ pc' = [pc EXCEPT ![r] = "done"]
    /\ UNCHANGED <<failed_at, args, renderer, total_frames, frame_num, frame, writer,
                   written, calls, response, fs, seen>>

\* cv2.VideoWriter(output_path, ...) opens: the file is created or truncated
OpenWriter(r) ==
    /\ pc[r] = "open"
    /\ LET p == output_path(args[r].output_name) IN
       /\ writer' = [writer EXCEPT ![r] =
                       [state |-> "open", path |-> p, pos |-> 0]]
       /\ fs' = [fs EXCEPT ![p] =
                   [exists |-> TRUE, old |-> FALSE, data |-> <<>>]]
    /\ frame_num' = [frame_num EXCEPT ![r] = 0]
    /\ pc' = [pc EXCEPT ![r] = "loop"]
    /\ UNCHANGED <<failed_at, args, renderer, total_frames, frame, written, calls,
                   outcome, response, seen>>

\* cv2.VideoWriter(...) does not open; "if not writer.isOpened(): raise"
OpenWriterFails(r) ==
    /\ pc[r] = "open"
    /\ writer' = [writer EXCEPT ![r] =
                    [state |-> "unopened",
                     path |-> output_path(args[r].output_name), pos |-> 0]]
    /\ outcome' = [outcome EXCEPT ![r] =
                     [kind |-> "raise", path |-> <<>>, msg |-> "open"]]
    /\ pc' = [pc EXCEPT ![r] = "done"]
    /\ UNCHANGED <<failed_at, args, renderer, total_frames, frame_num, frame, written,
                   calls, response, fs, seen>>

\* frame = renderer.create_frame(frame_num, duration, main_title, subtitle)
CreateFrame(r) ==
    /\ pc[r] = "loop"
    /\ frame_num[r] < total_frames[r]
    /\ LET res == create_frame(renderer[r], frame_num[r], args[r].duration.val,
                               args[r].main_title, args[r].subtitle) IN
       /\ ~res.raised
       /\ frame' = [frame EXCEPT ![r] = res.frame]
       /\ renderer' = [renderer EXCEPT ![r] = res.self]
    /\ calls' = [calls EXCEPT ![r] = Append(@, frame_num[r])]
    /\ pc' = [pc EXCEPT ![r] = "write"]
    /\ UNCHANGED <<failed_at, args, total_frames, frame_num, writer, written, outcome,
                   response, fs, seen>>

\* create_frame raises (a PIL or numpy error, MemoryError, ...)
CreateFrameFails(r) ==
    /\ pc[r] = "loop"
    /\ frame_num[r] < total_frames[r]
    /\ calls' = [calls EXCEPT ![r] = Append(@, frame_num[r])]
    /\ failed_at' = [failed_at EXCEPT ![r] = frame_num[r]]
    /\ pc' = [pc EXCEPT ![r] = "except"]
    /\ UNCHANGED <<args, renderer, total_frames, frame_num, frame, writer,
                   written, outcome, response, fs, seen>>

\* the bytes of file data after one frame is written at offset pos
write_at(data, pos, fr) ==
    [i \in 1..(IF pos + 1 > Len(data) THEN pos + 1 ELSE Len(data)) |->
        IF i = pos + 1 THEN fr
        ELSE IF i <= Len(data) THEN data[i] ELSE Hole]

\* writer.write(frame)
WriteFrame(r) ==
    /\ pc[r] = "write"
    /\ written' = [written EXCEPT ![r] = Append(@, frame[r])]
    /\ LET p == writer[r].path IN
       fs' = [fs EXCEPT ![p].data = write_at(@, writer[r].pos, frame[r])]
    /\ writer' = [writer EXCEPT ![r].pos = @ + 1]
    /\ frame_num' = [frame_num EXCEPT ![r] = @ + 1]
    /\ pc' = [pc EXCEPT ![r] = "loop"]
    /\ UNCHANGED <<failed_at, args, renderer, total_frames, frame, calls, outcome,
                   response, seen>>

\* range(total_frames) is exhausted: "return output_path", the finally
\* clause still to run
ReturnPath(r) ==
    /\ pc[r] = "loop"
    /\ frame_num[r] >= total_frames[r]
    /\ outcome' = [outcome EXCEPT ![r] =
                     [kind |-> "return",
                      path |-> output_path(args[r].output_name), msg |-> ""]]
    /\ pc' = [pc EXCEPT ![r] = "finally"]
    /\ UNCHANGED <<failed_at, args, renderer, total_frames, frame_num, frame, writer,
                   written, calls, response, fs, seen>>

\* a handler that logs the failed frame and goes on with the next one
ExceptContinue(r) ==
    /\ pc[r] = "except"
    /\ frame_num' = [frame_num EXCEPT ![r] = @ + 1]
    /\ pc' = [pc EXCEPT ![r] = "loop"]
    /\ UNCHANGED <<failed_at, args, renderer, total_frames, frame, writer, written,
                   calls, outcome, response, fs, seen>>

\* "except Exception as e: raise Exception(...)", the finally clause still
\* to run
Except(r) ==
    /\ pc[r] = "except"
    /\ outcome' = [outcome EXCEPT ![r] =
                     [kind |-> "raise", path |-> <<>>, msg |-> "frame"]]
    /\ pc' = [pc EXCEPT ![r] = "finally"]
    /\ UNCHANGED <<failed_at, args, renderer, total_frames, frame_num, frame, writer,
                   written, calls, response, fs, seen>>

\* "finally: writer.release()", then the call returns or raises
Finally(r) ==
    /\ pc[r] = "finally"
    /\ writer' = [writer EXCEPT ![r].state = "released"]
    /\ pc' = [pc EXCEPT ![r] = "done"]
    /\ UNCHANGED <<failed_at, args, renderer, total_frames, frame_num, frame, written,
                   calls, outcome, response, fs, seen>>

Generate(r) ==
    \/ Setup(r)
    \/ SetupFails(r)
    \/ OpenWriter(r)
    \/ OpenWriterFails(r)
    \/ CreateFrame(r)
    \/ CreateFrameFails(r)
    \/ WriteFrame(r)
    \/ ReturnPath(r)
    \/ Except(r)
    \/ Finally(r)

Next == Generate(1)

Spec == Init /\ [][Next]_vars

\* ------------------------------------------------- /create-lowerthird
S_Long == [i \in 1..101 |-> "x"]
ConcTitles == {S_Hi, S_Long}
\* the JSON "duration": not a number, 0, 1/64 s (shorter than one frame), or
\* a small positive multiple of 1/8 s
ConcDurations ==
    {[number |-> FALSE, val |-> 0], Num(1)}
        \cup {Num(8 * d) : d \in 0..MaxConcDuration}

\* the validation of create_lowerthird turns the request down with a 400
Reject(r) ==
    /\ pc[r] = "request"
    /\ \/ ~args[r].duration.number
       \/ args[r].duration.val <= 0
       \/ Len(args[r].main_title) > 100
       \/ Len(args[r].subtitle) > 100
    /\ response' = [response EXCEPT ![r] =
                      [code |-> 400, status |-> "error", video |-> <<>>]]
    /\ pc' = [pc EXCEPT ![r] = "responded"]
    /\ UNCHANGED <<args, renderer, total_frames, frame_num, frame, writer,
                   written, calls, failed_at, outcome, fs, seen>>

\* the request passes the validation; generate_lowerthird is called
Accept(r) ==
    /\ pc[r] = "request"
    /\ args[r].duration.number
    /\ args[r].duration.val > 0
    /\ Len(args[r].main_title) <= 100
    /\ Len(args[r].subtitle) <= 100
    /\ pc' = [pc EXCEPT ![r] = "call"]
    /\ UNCHANGED <<args, renderer, total_frames, frame_num, frame, writer,
                   written, calls, failed_at, outcome, response, fs, seen>>

\* generate_lowerthird is back: {"status": "ok", "video": video_path}, or
\* "except Exception as e" and a 500
Respond(r) ==
    /\ pc[r] = "done"
    /\ response' = [response EXCEPT ![r] =
                      IF outcome[r].kind = "return"
                      THEN [code |-> 200, status |-> "ok",
                            video |-> outcome[r].path]
                      ELSE [code |-> 500, status |-> "error", video |-> <<>>]]
    /\ pc' = [pc EXCEPT ![r] = "responded"]
    /\ UNCHANGED <<args, renderer, total_frames, frame_num, frame, writer,
                   written, calls, failed_at, outcome, fs, seen>>

\* two requests are posted and handled by two threads of the server
InitConc ==
    /\ pc = [r \in Reqs |-> "request"]
    /\ args \in [Reqs ->
                   [main_title : ConcTitles, subtitle : {S_TwoWords},
                    output_name : OutputNames, duration : ConcDurations,
                    style : {"cloud_blue"}]]
    /\ fs = [p \in Paths |-> NoFile]
    /\ Blank

NextConc ==
    \E r \in Reqs :
        \/ Reject(r)
        \/ Accept(r)
        \/ Generate(r)
        \/ Respond(r)

SpecConc == InitConc /\ [][NextConc]_vars

\* ------------------------------------------ create_frame in any order
\* a renderer is constructed and its create_frame is called for the frames
\* of one render in any order, any number of times
InitFrame ==
    /\ pc = [r \in Reqs |-> IF r = 1 THEN "frames" ELSE "off"]
    /\ \E ti \in {S_Hi, S_DataDash}, su \in {S_Fortinet},
          d \in 0..MaxFrameDuration, st \in Styles :
         /\ args = [r \in Reqs |->
                      IF r = 1
                      THEN [main_title |-> ti, subtitle |-> su,
                            output_name |-> "demo", duration |-> Num(8 * d),
                            style |-> st]
                      ELSE NoArgs]
         /\ renderer = [r \in Reqs |->
                          IF r = 1 THEN DataDashRenderer(st) ELSE NoRenderer]
    /\ fs = [p \in Paths |-> NoFile]
    /\ total_frames = [r \in Reqs |-> 0]
    /\ frame_num = [r \in Reqs |-> 0]
    /\ frame = [r \in Reqs |-> NoFrame]
    /\ writer = [r \in Reqs |-> NoWriter]
    /\ written = [r \in Reqs |-> <<>>]
    /\ calls = [r \in Reqs |-> <<>>]
    /\ failed_at = [r \in Reqs |-> -1]
    /\ outcome = [r \in Reqs |-> NoOutcome]
    /\ response = [r \in Reqs |-> NoResponse]
    /\ seen = {}

\* renderer.create_frame(n, duration, main_title, subtitle), any n of the
\* render; what it returned (or that it raised) is recorded under n
RenderAny(r) ==
    /\ pc[r] = "frames"
    /\ LET N == int_frames(args[r].duration.val, renderer[r].fps) IN
       \E n \in 0..(IF N > 0 THEN N - 1 ELSE 0) :
         LET res == create_frame(renderer[r], n, args[r].duration.val,
                                 args[r].main_title, args[r].subtitle) IN
         /\ renderer' = [renderer EXCEPT ![r] = res.self]
         /\ seen' = seen \cup
                {[frame_num |-> n, raised |-> res.raised,
                  frame |-> IF res.raised THEN NoFrame ELSE res.frame]}
    /\ UNCHANGED <<pc, args, total_frames, frame_num, frame, writer, written,
                   calls, failed_at, outcome, response, fs>>

NextFrame == RenderAny(1)

SpecFrame == InitFrame /\ [][NextFrame]_vars

\* ------------------------------------------------------- renders by style
\* GET /styles: the catalog list_styles returns
list_styles == {"cloud_blue", "secure_red", "sase_purple", "connectivity_yellow"}
\* the catalog, the default argument of generate_lowerthird and of
\* DataDashRenderer ("default"), and an identifier nobody defines
StyleInputs == list_styles \cup {"default", "not_a_style"}

\* one direct call of generate_lowerthird for each style identifier
InitStyle ==
    /\ pc = [r \in Reqs |-> IF r = 1 THEN "call" ELSE "off"]
    /\ \E k \in 1..MaxStyleDuration, st \in StyleInputs :
         args = [r \in Reqs |->
                   IF r = 1
                   THEN [main_title |-> S_Hi, subtitle |-> S_TwoWords,
                         output_name |-> "demo", duration |-> Num(8 * k),
                         style |-> st]
                   ELSE NoArgs]
    /\ fs = [p \in Paths |-> NoFile]
    /\ Blank

NextStyle == Generate(1)

SpecStyle == InitStyle /\ [][NextStyle]_vars

\* ----------------------------------------------------------------- claims
Done(r) == pc[r] = "done"
\* the call got past os.makedirs and computed total_frames
IsSetUp(r) == renderer[r] # NoRenderer
FrameNums(fs_) == [i \in 1..Len(fs_) |-> fs_[i].frame_num]
UpTo(k) == [i \in 1..k |-> i - 1]

\* C1: when generate_lowerthird has returned or raised, a video sink that
\* was created has been released, whichever way the call left.
C1_SinkReleasedOnEveryExit ==
    \A r \in Reqs :
        (Done(r) /\ writer[r].state # "none") => writer[r].state = "released"

\* C2: a call with duration <= 0 ends by raising, and the file at its output
\* path is neither created nor overwritten by it.
C2_NonPositiveDurationRejected ==
    \A r \in Reqs :
        (Done(r) /\ args[r].duration.val <= 0) =>
            /\ outcome[r].kind = "raise"
            /\ LET f == fs[output_path(args[r].output_name)] IN
               f.exists => f.old

C4_SuccessWritesEveryFrameInOrder ==
    \A r \in Reqs :
        (Done(r) /\ outcome[r].kind = "return") =>
            /\ Len(written[r]) = total_frames[r]
            /\ FrameNums(written[r]) = UpTo(Len(written[r]))
            /\ writer[r].state = "released"
            /\ (args[r].duration.val = 192 => Len(written[r]) = 90)

\* C5: the last frame of a render (frame_num = total_frames - 1) of a
\* non-empty title and a non-empty subtitle shows the whole title and every
\* word of the subtitle.
C5_LastFrameShowsFullText ==
    \A r \in Reqs : \A i \in 1..Len(written[r]) :
        LET f == written[r][i] IN
        (/\ f.frame_num = f.total_frames - 1
         /\ args[r].main_title # <<>>
         /\ args[r].subtitle # <<>>) =>
            /\ f.visible_title = args[r].main_title
            /\ f.visible_subtitle = join(split(args[r].subtitle))

\* C6: once create_frame has raised at index k, the render is over: k was
\* tried once, only the frames 0..k-1 are in the sink, no later step writes
\* or renders, and the call ends with the sink released and one exception
\* in place of the path.
C6_FrameFailureAborts ==
    \A r \in Reqs :
        failed_at[r] >= 0 =>
            LET k == failed_at[r] IN
            /\ pc[r] \in {"except", "finally", "done"}
            /\ calls[r] = UpTo(k + 1)
            /\ FrameNums(written[r]) = UpTo(k)
            /\ (Done(r) =>
                  /\ writer[r].state = "released"
                  /\ outcome[r].kind = "raise"
                  /\ outcome[r].path = <<>>)

\* C6 witness: a render failed at a frame after the first and has ended.
C6_Witness ==
    \E r \in Reqs :
        /\ Done(r)
        /\ failed_at[r] >= 1
        /\ Len(written[r]) = failed_at[r]
        /\ outcome[r].kind = "raise"

\* C9: over the frames of one render the number of title characters shown
\* and the number of subtitle words shown never decrease with the frame
\* index, and never exceed the title's length and the subtitle's word count.
\* Every frame written so far is compared with the newest one; as this holds
\* after each write, it holds for any two frames of the render.
C9_RevealMonotonic ==
    \A r \in Reqs :
        /\ LET nwords == Len(split(args[r].subtitle)) IN
           \A i \in 1..Len(written[r]) :
             /\ Len(written[r][i].visible_title) <= Len(args[r].main_title)
             /\ written[r][i].words_shown <= nwords
             /\ written[r][i].words_shown >= 0
        /\ \A i \in 1..Len(written[r]) :
             LET newest == written[r][Len(written[r])] IN
             (written[r][i].frame_num < newest.frame_num) =>
                 /\ Len(written[r][i].visible_title)
                       <= Len(newest.visible_title)
                 /\ written[r][i].words_shown <= newest.words_shown

\* C9 witness: a render in which the title grew between two frames that
\* each showed some of it, and so did the subtitle.
C9_Witness ==
    \E r \in Reqs :
        /\ \E i, j \in 1..Len(written[r]) :
             /\ i < j
             /\ 0 < Len(written[r][i].visible_title)
             /\ Len(written[r][i].visible_title)
                   < Len(written[r][j].visible_title)
        /\ \E i, j \in 1..Len(written[r]) :
             /\ i < j
             /\ 0 < written[r][i].words_shown
             /\ written[r][i].words_shown < written[r][j].words_shown

\* C10: a frame whose t = frame_num / total_frames is below an element's
\* start (bar 0.2, logo 0.4, title 0.6, subtitle 0.8) does not paint that
\* element; frame 0 paints none of the four.
C10_DormantBeforeWindow ==
    \A r \in Reqs : \A i \in 1..Len(written[r]) :
        LET f == written[r][i]
            n == f.frame_num
            N == f.total_frames
        IN /\ (10 * n < 2 * N) => (~f.bar /\ f.bar_width = 0)
           /\ (10 * n < 4 * N) => f.logo = "none"
           /\ (10 * n < 6 * N) => (~f.title /\ f.visible_title = <<>>)
           /\ (10 * n < 8 * N) => (~f.subtitle /\ f.visible_subtitle = <<>>)
           /\ (n = 0) => (~f.bar /\ f.logo = "none" /\ ~f.title /\ ~f.subtitle)

\* C10 witness: a render wrote frame 0 with nothing painted and later a
\* frame that paints the logo, the title and the subtitle.
C10_Witness ==
    \E r \in Reqs : \E j \in 1..Len(written[r]) :
        /\ written[r][1].frame_num = 0
        /\ ~written[r][1].bar
        /\ written[r][j].logo # "none"
        /\ written[r][j].title
        /\ written[r][j].subtitle

\* C7: when generate_lowerthird hands a path back to a request that is
\* handled next to another one, the file at that path holds exactly the
\* frames this request wrote, in order.
C7_ReturnedFileHoldsOwnFrames ==
    \A r \in Reqs :
        (Done(r) /\ outcome[r].kind = "return") =>
            /\ fs[outcome[r].path].exists
            /\ fs[outcome[r].path].data = written[r]

\* C8: create_frame leaves the renderer as __init__ made it, and whatever
\* order and however often the frames are rendered, one frame index has one
\* result.
C8_CreateFramePure ==
    /\ \A r \in Reqs :
         pc[r] = "frames" => renderer[r] = DataDashRenderer(args[r].style)
    /\ \A a, b \in seen : a.frame_num = b.frame_num => a = b

\* C8 witness: several frames were rendered with a palette of its own, the
\* first one after a later one.
C8_Witness ==
    /\ pc[1] = "frames"
    /\ args[1].style = "secure_red"
    /\ \E a, b \in seen :
         /\ a.frame_num = 0 /\ ~a.raised
         /\ b.frame_num > 1 /\ b.frame.title

\* C11: the renderer of every call has a complete palette of six RGB
\* colours: for an identifier of the catalog its own one (its brand colour
\* as primary, unlike the palette of any other identifier), for any other
\* identifier the cloud_blue one; every frame is painted with it, and a call
\* that met no failure of the environment returns its path whatever the style.
C11_StyleResolvesOrFallsBack ==
    \A r \in Reqs :
        IsSetUp(r) =>
            LET st == args[r].style
                cc == renderer[r].current_colors
                brand == [cloud_blue |-> <<48, 127, 226>>,
                          secure_red |-> <<218, 41, 28>>,
                          sase_purple |-> <<144, 99, 205>>,
                          connectivity_yellow |-> <<255, 185, 0>>]
            IN /\ list_styles \subseteq DOMAIN renderer[r].colors
               /\ DOMAIN cc = {"primary", "secondary", "accent", "white",
                               "dark", "background"}
               /\ \A k \in DOMAIN cc :
                    /\ Len(cc[k]) = 3
                    /\ \A i \in 1..3 : cc[k][i] \in 0..255
               /\ (st \in list_styles =>
                     /\ cc.primary = brand[st]
                     /\ \A o \in list_styles \ {st} :
                          cc # renderer[r].colors[o])
               /\ (st \notin list_styles =>
                     /\ cc = renderer[r].colors["cloud_blue"]
                     /\ cc.primary = brand["cloud_blue"])
               /\ \A i \in 1..Len(written[r]) : written[r][i].colors = cc
               /\ (Done(r) /\ failed_at[r] < 0 /\ writer[r].state = "released")
                     => outcome[r].kind = "return"

\* C11 witness: a render with the style "not_a_style" returned its path,
\* its frames painted in cloud_blue.
C11_Witness ==
    \E r \in Reqs :
        /\ Done(r)
        /\ args[r].style = "not_a_style"
        /\ outcome[r].kind = "return"
        /\ Len(written[r]) > 0
        /\ written[r][1].colors.primary = <<48, 127, 226>>

\* C12: every frame with t >= 0.7 (bar_start + bar_duration), the last one
\* included, paints the bar at its full width of 650.
C12_BarSettledAtFullWidth ==
    \A r \in Reqs : \A i \in 1..Len(written[r]) :
        LET f == written[r][i] IN
        (10 * f.frame_num >= 7 * f.total_frames) =>
            (f.bar /\ f.bar_width = 650)

PhaseRank(ph) ==
    IF ph = "none" THEN 0
    ELSE IF ph = "glow" THEN 1
    ELSE IF ph = "materialize" THEN 2
    ELSE 3

\* C13: a frame with t > 0.4 paints exactly the phase of its
\* logo_t = min((t - 0.4) / 0.4, 1): Glow below 0.3 (t < 0.52), Materialize
\* from 0.3 to below 0.7 (0.52 <= t < 0.68), Settle from 0.7 on (t >= 0.68);
\* over the frames of a render the phase only moves forward in the order
\* Dormant, Glow, Materialize, Settle (each frame written so far against
\* the newest one, after every write).
C13_LogoPhasesAdvance ==
    \A r \in Reqs :
        /\ \A i \in 1..Len(written[r]) :
             LET f == written[r][i]
                 n == f.frame_num
                 N == f.total_frames
             IN /\ f.logo \in {"none", "glow", "materialize", "settle"}
                /\ (10 * n > 4 * N /\ 100 * n < 52 * N) => f.logo = "glow"
                /\ (100 * n >= 52 * N /\ 100 * n < 68 * N)
                      => f.logo = "materialize"
                /\ (100 * n >= 68 * N) => f.logo = "settle"
        /\ \A i \in 1..Len(written[r]) :
             LET newest == written[r][Len(written[r])] IN
             (written[r][i].frame_num < newest.frame_num) =>
                 PhaseRank(written[r][i].logo) <= PhaseRank(newest.logo)

\* C13 witness: a render wrote frames in all four states of the logo.
C13_Witness ==
    \E r \in Reqs :
        \A ph \in {"none", "glow", "materialize", "settle"} :
            \E i \in 1..Len(written[r]) : written[r][i].logo = ph

\* C14: over the frames of a render that paint the logo mark (Materialize
\* or Settle), its opacity (int(255 * alpha)) never decreases with the
\* frame index.
C14_LogoOpacityNonDecreasing ==
    \A r \in Reqs : \A i, j \in 1..Len(written[r]) :
        (/\ written[r][i].frame_num < written[r][j].frame_num
         /\ written[r][i].logo \in {"materialize", "settle"}
         /\ written[r][j].logo \in {"materialize", "settle"}) =>
            written[r][i].logo_alpha <= written[r][j].logo_alpha

\* C15: a request that was answered with status ok has a video of at least
\* one frame, and create_frame is never called in a render whose
\* total_frames is 0.
C15_OkVideoHasFrames ==
    \A r \in Reqs :
        /\ response[r].status = "ok" => Len(written[r]) >= 1
        /\ calls[r] # <<>> => total_frames[r] # 0
====
